---- MODULE Spec2Model ----
(***************************************************************************)
(* Model of the OpenThread flash settings driver (ot::Flash): a log of     *)
(* records over two swap regions of NOR flash, with compaction (Swap) and  *)
(* recovery (Init).  Flash words are 32 bits, kept as pairs <<lo, hi>> of  *)
(* little-endian 16-bit halves; offsets and sizes are in bytes as in the   *)
(* source.                                                                 *)
(***************************************************************************)
EXTENDS Integers, Sequences, FiniteSets, TLC

\* ------------------------------------------------------------------ bounds
SwapWords == 9                 \* words per swap region (otPlatFlashGetSwapSize / 4)
MaxOps == 4                    \* operations issued in one behaviour
MaxLoss == 1                   \* power losses in one behaviour
ArbPrefix == 3                 \* words of region 0 that hold arbitrary prior contents
MaxChainOps == 5               \* operations issued in one behaviour of SpecChain

\* --------------------------------------------------------------- constants
kFlashWordSize == 4
kMaxDataSize == 256
kFlagsInit == 65535
kFlagAddBegin == 1
kFlagAddComplete == 2
kFlagDelete == 4
kFlagFirst == 8
kActive == <<50670, 48732>>    \* 0xbe5cc5ee
kInactive == <<50668, 48732>>  \* 0xbe5cc5ec
Erased == <<65535, 65535>>     \* an erased flash word
SwapHeaderSize == 4            \* SwapHeader::GetSize
RecordHeaderSize == 8          \* sizeof(RecordHeader)
mSwapSize == SwapWords * kFlashWordSize

OT_ERROR_NONE == "NONE"
OT_ERROR_NOT_FOUND == "NOT_FOUND"
OT_ERROR_NO_BUFS == "NO_BUFS"

Keys == {1, 2}
Values == {<<>>, <<1, 2, 3, 4, 5, 6, 7, 8, 9>>}
PadBytes == {0, 255}           \* values an uninitialized byte of Record::mData may hold
\* the padding bytes a record of value v carries: none when Len(v) is a multiple of 4
Pads(v) == IF Len(v) % 4 = 0 THEN {0} ELSE PadBytes
Indexes == 0 .. ((SwapWords - 1) \div 2)

Min(a, b) == IF a < b THEN a ELSE b

\* ------------------------------------------------------- platform flash
RECURSIVE And16(_, _, _)
And16(a, b, n) ==
    IF n = 0 THEN 0
    ELSE (a % 2) * (b % 2) + 2 * And16(a \div 2, b \div 2, n - 1)

\* a flash write can only clear bits: the stored word is old AND new
AndWord(old, new) ==
    IF old = Erased THEN new
    ELSE IF old = new THEN old
    ELSE <<And16(old[1], new[1], 16), And16(old[2], new[2], 16)>>

ErasedRegion == [w \in 0 .. SwapWords - 1 |-> Erased]

otPlatFlashErase(f, r) == [f EXCEPT ![r] = ErasedRegion]

otPlatFlashWrite(f, r, off, data) ==
    [f EXCEPT ![r] = [w \in 0 .. SwapWords - 1 |->
        IF w >= off \div 4 /\ w < off \div 4 + Len(data)
        THEN AndWord(f[r][w], data[w - off \div 4 + 1])
        ELSE f[r][w]]]

\* one 32-bit word at byte offset off
otPlatFlashRead(f, r, off) ==
    IF off \div 4 < SwapWords THEN f[r][off \div 4] ELSE Erased

ReadWords(f, r, off, size) ==
    [i \in 1 .. size \div 4 |-> otPlatFlashRead(f, r, off + 4 * (i - 1))]

ReadByte(f, r, off) ==
    LET w == otPlatFlashRead(f, r, off)
        p == off % 4
    IN  IF p = 0 THEN w[1] % 256
        ELSE IF p = 1 THEN w[1] \div 256
        ELSE IF p = 2 THEN w[2] % 256
        ELSE w[2] \div 256

ReadBytes(f, r, off, n) == [j \in 1 .. n |-> ReadByte(f, r, off + j - 1)]

EraseCall(r) == [type |-> "erase", region |-> r, offset |-> 0, data |-> <<>>]
WriteCall(r, off, data) == [type |-> "write", region |-> r, offset |-> off, data |-> data]

ApplyCall(f, c) ==
    IF c.type = "erase" THEN otPlatFlashErase(f, c.region)
    ELSE otPlatFlashWrite(f, c.region, c.offset, c.data)

\* the flash images left by the calls of a call sequence: Images(f, calls)[n + 1]
\* is the image after the first n calls
RECURSIVE Images(_, _)
Images(f, calls) ==
    IF calls = <<>> THEN <<f>>
    ELSE <<f>> \o Images(ApplyCall(f, Head(calls)), Tail(calls))

\* the flash image after all the calls of a call sequence
RECURSIVE Apply(_, _)
Apply(f, calls) ==
    IF calls = <<>> THEN f
    ELSE Apply(ApplyCall(f, Head(calls)), Tail(calls))

\* --------------------------------------------------------- RecordHeader
HasBit(flags, bit) == (flags \div bit) % 2 = 1
ClearBit(flags, bit) == IF HasBit(flags, bit) THEN flags - bit ELSE flags

\* RecordHeader::Init that forgets to mark the first record of a chain
RecordHeaderInitNoFirst(aKey, aFirst) ==
    [mKey |-> aKey,
     mFlags |-> ClearBit(kFlagsInit, kFlagAddBegin),
     mLength |-> 0,
     mReserved |-> 65535]

RecordHeaderInit(aKey, aFirst) ==
    [mKey |-> aKey,
     mFlags |-> IF aFirst THEN ClearBit(ClearBit(kFlagsInit, kFlagAddBegin), kFlagFirst)
                ELSE ClearBit(kFlagsInit, kFlagAddBegin),
     mLength |-> 0,
     mReserved |-> 65535]

GetSize(record) ==
    (RecordHeaderSize + (((record.mLength + 3) % 65536) \div 4) * 4) % 65536

IsValid(record) ==
    ~HasBit(record.mFlags, kFlagAddComplete) /\ HasBit(record.mFlags, kFlagDelete)
IsAddBeginSet(record) == ~HasBit(record.mFlags, kFlagAddBegin)
IsAddCompleteSet(record) == ~HasBit(record.mFlags, kFlagAddComplete)
IsDeleted(record) == ~HasBit(record.mFlags, kFlagDelete)
IsFirst(record) == ~HasBit(record.mFlags, kFlagFirst)
\* a SetAddCompleteFlag that also raises the AddBegin bit again
SetAddCompleteFlagRaisesBegin(record) ==
    [record EXCEPT !.mFlags = ClearBit(@, kFlagAddComplete) + kFlagAddBegin]

SetAddCompleteFlag(record) == [record EXCEPT !.mFlags = ClearBit(@, kFlagAddComplete)]
\* a SetDeleted that leaves the Delete bit as it is
SetDeletedKeeps(record) == record

SetDeleted(record) == [record EXCEPT !.mFlags = ClearBit(@, kFlagDelete)]
SetFirst(record) == [record EXCEPT !.mFlags = ClearBit(@, kFlagFirst)]

\* the header as it lies in flash: key, flags, length, reserved (little-endian)
HeaderWords(record) == <<<<record.mKey, record.mFlags>>, <<record.mLength, record.mReserved>>>>

ReadHeader(f, r, off) ==
    LET w0 == otPlatFlashRead(f, r, off)
        w1 == otPlatFlashRead(f, r, off + 4)
    IN  [mKey |-> w0[1], mFlags |-> w0[2], mLength |-> w1[1], mReserved |-> w1[2]]

\* Record::SetData followed by the image of the whole record; the bytes of
\* mData past aDataLength are uninitialized and read as pad
RecordWords(record, aData, pad) ==
    LET rec == [record EXCEPT !.mLength = Len(aData)]
        byte(j) == IF j < Len(aData) THEN aData[j + 1] ELSE pad
    IN  HeaderWords(rec) \o
        [i \in 1 .. (GetSize(rec) - RecordHeaderSize) \div 4 |->
            <<byte(4 * (i - 1)) + 256 * byte(4 * (i - 1) + 1),
              byte(4 * (i - 1) + 2) + 256 * byte(4 * (i - 1) + 3)>>]

\* ------------------------------------------------------------ Flash::Get
\* aCap is the capacity the caller passes in *aValueLength; buf is aValue
RECURSIVE GetLoop(_, _, _, _, _, _, _, _)
GetLoop(f, idx, used, aKey, aIndex, aCap, offset, st) ==
    IF offset >= used THEN st
    ELSE LET record == ReadHeader(f, idx, offset)
             next == offset + GetSize(record)
         IN  IF record.mKey # aKey \/ ~IsValid(record)
             THEN GetLoop(f, idx, used, aKey, aIndex, aCap, next, st)
             ELSE LET index == IF IsFirst(record) THEN 0 ELSE st.index
                      readLength == Min(aCap, record.mLength)
                      hit == [error |-> OT_ERROR_NONE,
                              valueLength |-> record.mLength,
                              buf |-> ReadBytes(f, idx, offset + RecordHeaderSize, readLength)
                                      \o SubSeq(st.buf, readLength + 1, Len(st.buf)),
                              index |-> index + 1]
                  IN  IF index = aIndex
                      THEN GetLoop(f, idx, used, aKey, aIndex, aCap, next, hit)
                      ELSE GetLoop(f, idx, used, aKey, aIndex, aCap, next,
                                   [st EXCEPT !.index = index + 1])

Get(f, idx, used, aKey, aIndex) ==
    LET st == GetLoop(f, idx, used, aKey, aIndex, kMaxDataSize, SwapHeaderSize,
                      [error |-> OT_ERROR_NOT_FOUND, valueLength |-> 0, buf |-> <<>>, index |-> 0])
    IN  [error |-> st.error,
         value |-> SubSeq(st.buf, 1, Min(st.valueLength, Len(st.buf))),
         length |-> st.valueLength]

\* ------------------------------------------- Flash::DoesValidRecordExist
\* a DoesValidRecordExist that never finds a later record
DoesValidRecordExistNever(f, idx, used, aOffset, aKey) == FALSE

RECURSIVE DoesValidRecordExist(_, _, _, _, _)
DoesValidRecordExist(f, idx, used, aOffset, aKey) ==
    IF aOffset >= used THEN FALSE
    ELSE LET record == ReadHeader(f, idx, aOffset)
         IN  IF IsValid(record) /\ IsFirst(record) /\ record.mKey = aKey THEN TRUE
             ELSE DoesValidRecordExist(f, idx, used, aOffset + GetSize(record), aKey)

\* ----------------------------------------------------------- Flash::Swap
\* the record copies of the loop, and the final dstOffset
RECURSIVE SwapLoop(_, _, _, _, _)
SwapLoop(f, idx, used, srcOffset, dstOffset) ==
    IF srcOffset >= used THEN [calls |-> <<>>, dstOffset |-> dstOffset]
    ELSE LET record == ReadHeader(f, idx, srcOffset)
             size == GetSize(record)
         IN  IF ~IsAddBeginSet(record) THEN [calls |-> <<>>, dstOffset |-> dstOffset]
             ELSE IF ~IsValid(record)
                     \/ DoesValidRecordExist(f, idx, used, srcOffset + size, record.mKey)
             THEN SwapLoop(f, idx, used, srcOffset + size, dstOffset)
             ELSE LET rest == SwapLoop(f, idx, used, srcOffset + size, dstOffset + size)
                  IN  [calls |-> <<WriteCall(1 - idx, dstOffset, ReadWords(f, idx, srcOffset, size))>>
                                 \o rest.calls,
                       dstOffset |-> rest.dstOffset]

\* the swap headers without the ACTIVE write: only the source is retired
SwapCommitSourceOnly(idx) ==
    <<WriteCall(idx, 0, <<kInactive>>)>>

\* the swap headers written in the wrong order: the source is retired first
SwapCommitSourceFirst(idx) ==
    <<WriteCall(idx, 0, <<kInactive>>), WriteCall(1 - idx, 0, <<kActive>>)>>

\* the swap headers: the destination is marked active, then the source inactive
SwapCommit(idx) ==
    <<WriteCall(1 - idx, 0, <<kActive>>), WriteCall(idx, 0, <<kInactive>>)>>

Swap(f, idx, used) ==
    LET loop == SwapLoop(f, idx, used, SwapHeaderSize, SwapHeaderSize)
    IN  [calls |-> <<EraseCall(1 - idx)>> \o loop.calls \o SwapCommit(idx),
         index |-> 1 - idx,
         used |-> loop.dstOffset]

\* ------------------------------------------------------------ Flash::Add
\* Add(aKey, aFirst, aValue, aValueLength): the flash calls issued, the
\* in-memory state left and the error returned
\* the test after the Swap that refuses every record
NoBufsAlways(size, used) == TRUE

\* the test after the Swap: the record still does not fit
NoBufs(size, used) == ~((mSwapSize - size) >= used)

Add(f, idx, used, aKey, aFirst, aValue, pad) ==
    LET record == [RecordHeaderInit(aKey, aFirst) EXCEPT !.mLength = Len(aValue)]
        size == GetSize(record)
        needSwap == (mSwapSize - size) < used
        sw == IF needSwap THEN Swap(f, idx, used)
              ELSE [calls |-> <<>>, index |-> idx, used |-> used]
    IN  IF needSwap /\ NoBufs(size, sw.used)
        THEN [calls |-> sw.calls, index |-> sw.index, used |-> sw.used,
              error |-> OT_ERROR_NO_BUFS, swapped |-> TRUE]
        ELSE [calls |-> sw.calls \o
                        <<WriteCall(sw.index, sw.used, RecordWords(record, aValue, pad)),
                          WriteCall(sw.index, sw.used, HeaderWords(SetAddCompleteFlag(record)))>>,
              index |-> sw.index,
              used |-> sw.used + size,
              error |-> OT_ERROR_NONE,
              swapped |-> needSwap]

\* Flash::Set
Set(f, idx, used, aKey, aValue, pad) == Add(f, idx, used, aKey, TRUE, aValue, pad)

\* the append form without its probe: every appended record starts a chain
AddAppendAlwaysFirst(f, idx, used, aKey, aValue, pad) ==
    Add(f, idx, used, aKey, TRUE, aValue, pad)

\* Flash::Add(aKey, aValue, aValueLength): the append form
AddAppend(f, idx, used, aKey, aValue, pad) ==
    LET first == (Get(f, idx, used, aKey, 0).error = OT_ERROR_NOT_FOUND)
    IN  Add(f, idx, used, aKey, first, aValue, pad)

\* --------------------------------------------------------- Flash::Delete
\* the loop of Delete without the reset of index at a First record
RECURSIVE DeleteLoopNoReset(_, _, _, _, _, _, _)
DeleteLoopNoReset(f, idx, used, aKey, aIndex, offset, index0) ==
    IF offset >= used THEN [calls |-> <<>>, error |-> OT_ERROR_NOT_FOUND]
    ELSE LET record == ReadHeader(f, idx, offset)
             next == offset + GetSize(record)
         IN  IF record.mKey # aKey \/ ~IsValid(record)
             THEN DeleteLoopNoReset(f, idx, used, aKey, aIndex, next, index0)
             ELSE LET index == index0
                      del == (aIndex = index) \/ (aIndex = -1)
                      rec1 == IF del THEN SetDeleted(record) ELSE record
                      c1 == IF del THEN <<WriteCall(idx, offset, HeaderWords(rec1))>> ELSE <<>>
                      c2 == IF (index = 1) /\ (aIndex = 0)
                            THEN <<WriteCall(idx, offset, HeaderWords(SetFirst(rec1)))>>
                            ELSE <<>>
                      rest == DeleteLoopNoReset(f, idx, used, aKey, aIndex, next, index + 1)
                  IN  [calls |-> c1 \o c2 \o rest.calls,
                       error |-> IF del THEN OT_ERROR_NONE ELSE rest.error]

RECURSIVE DeleteLoop(_, _, _, _, _, _, _)
DeleteLoop(f, idx, used, aKey, aIndex, offset, index0) ==
    IF offset >= used THEN [calls |-> <<>>, error |-> OT_ERROR_NOT_FOUND]
    ELSE LET record == ReadHeader(f, idx, offset)
             next == offset + GetSize(record)
         IN  IF record.mKey # aKey \/ ~IsValid(record)
             THEN DeleteLoop(f, idx, used, aKey, aIndex, next, index0)
             ELSE LET index == IF IsFirst(record) THEN 0 ELSE index0
                      del == (aIndex = index) \/ (aIndex = -1)
                      rec1 == IF del THEN SetDeleted(record) ELSE record
                      c1 == IF del THEN <<WriteCall(idx, offset, HeaderWords(rec1))>> ELSE <<>>
                      c2 == IF (index = 1) /\ (aIndex = 0)
                            THEN <<WriteCall(idx, offset, HeaderWords(SetFirst(rec1)))>>
                            ELSE <<>>
                      rest == DeleteLoop(f, idx, used, aKey, aIndex, next, index + 1)
                  IN  [calls |-> c1 \o c2 \o rest.calls,
                       error |-> IF del THEN OT_ERROR_NONE ELSE rest.error]

\* a Delete that reports success whatever its loop found
DeleteReportsNone(f, idx, used, aKey, aIndex) ==
    LET loop == DeleteLoop(f, idx, used, aKey, aIndex, SwapHeaderSize, 0)
    IN  [calls |-> loop.calls, index |-> idx, used |-> used, error |-> OT_ERROR_NONE]

Delete(f, idx, used, aKey, aIndex) ==
    LET loop == DeleteLoop(f, idx, used, aKey, aIndex, SwapHeaderSize, 0)
    IN  [calls |-> loop.calls, index |-> idx, used |-> used, error |-> loop.error]

\* ----------------------------------------------------------- Flash::Wipe
\* a Wipe that rewrites the header of region 0 without erasing the region
WipeWithoutErase ==
    [calls |-> <<WriteCall(0, 0, <<kActive>>)>>,
     index |-> 0,
     used |-> SwapHeaderSize]

Wipe ==
    [calls |-> <<EraseCall(0), WriteCall(0, 0, <<kActive>>)>>,
     index |-> 0,
     used |-> SwapHeaderSize]

\* ----------------------------------------------- Flash::SanitizeFreeSpace
\* a check of the free space that never asks for a swap
SanitizeNeededNever(f, idx, used) == FALSE

SanitizeNeeded(f, idx, used) ==
    \/ used % 4 # 0
    \/ \E w \in 0 .. SwapWords - 1 :
          /\ 4 * w >= used
          /\ otPlatFlashRead(f, idx, 4 * w) # Erased

SanitizeFreeSpace(f, idx, used) ==
    IF SanitizeNeeded(f, idx, used) THEN Swap(f, idx, used)
    ELSE [calls |-> <<>>, index |-> idx, used |-> used]

\* ----------------------------------------------------------- Flash::Init
\* the scan for the frontier; a complete record of size 0 is never left
RECURSIVE InitScan(_, _, _)
InitScan(f, idx, used) ==
    IF ~(used <= mSwapSize - RecordHeaderSize) THEN [used |-> used, hang |-> FALSE]
    ELSE LET record == ReadHeader(f, idx, used)
         IN  IF ~IsAddBeginSet(record) \/ ~IsAddCompleteSet(record)
             THEN [used |-> used, hang |-> FALSE]
             ELSE IF GetSize(record) = 0 THEN [used |-> used, hang |-> TRUE]
             ELSE InitScan(f, idx, used + GetSize(record))

\* the region Init selects and the frontier its scan finds, before
\* SanitizeFreeSpace; wipe when neither header reads ACTIVE
InitSelect(f) ==
    IF otPlatFlashRead(f, 0, 0) # kActive /\ otPlatFlashRead(f, 1, 0) # kActive
    THEN [wipe |-> TRUE, index |-> 0, used |-> SwapHeaderSize]
    ELSE LET idx == IF otPlatFlashRead(f, 0, 0) = kActive THEN 0 ELSE 1
         IN  [wipe |-> FALSE, index |-> idx, used |-> InitScan(f, idx, SwapHeaderSize).used]

FlashInit(f) ==
    IF otPlatFlashRead(f, 0, 0) # kActive /\ otPlatFlashRead(f, 1, 0) # kActive
    THEN [calls |-> Wipe.calls, index |-> Wipe.index, used |-> Wipe.used, hang |-> FALSE]
    ELSE LET idx == IF otPlatFlashRead(f, 0, 0) = kActive THEN 0 ELSE 1
             scan == InitScan(f, idx, SwapHeaderSize)
             san == SanitizeFreeSpace(f, idx, scan.used)
         IN  IF scan.hang
             THEN [calls |-> <<>>, index |-> idx, used |-> scan.used, hang |-> TRUE]
             ELSE [calls |-> san.calls, index |-> san.index, used |-> san.used, hang |-> FALSE]

\* ------------------------------------------------------------ observers
\* what Get returns for every key and index
GetTable(f, idx, used) ==
    [k \in Keys |-> [i \in Indexes |-> Get(f, idx, used, k, i)]]

\* the current chain of a key: the values of its valid records from the last
\* valid First-marked record onward (all its valid records if none is marked)
RECURSIVE ChainLoop(_, _, _, _, _, _)
ChainLoop(f, idx, used, aKey, offset, acc) ==
    IF offset >= used THEN acc
    ELSE LET record == ReadHeader(f, idx, offset)
             next == offset + GetSize(record)
             value == ReadBytes(f, idx, offset + RecordHeaderSize, record.mLength)
         IN  IF record.mKey # aKey \/ ~IsValid(record)
             THEN ChainLoop(f, idx, used, aKey, next, acc)
             ELSE IF IsFirst(record)
             THEN ChainLoop(f, idx, used, aKey, next, <<value>>)
             ELSE ChainLoop(f, idx, used, aKey, next, Append(acc, value))

Chains(f, idx, used) ==
    [k \in Keys |-> ChainLoop(f, idx, used, k, SwapHeaderSize, <<>>)]

EmptyTable == [k \in Keys |-> [i \in Indexes |->
                 [error |-> OT_ERROR_NOT_FOUND, value |-> <<>>, length |-> 0]]]
EmptyChains == [k \in Keys |-> <<>>]

\* ---------------------------------------------------------------- state
VARIABLES
    flash,        \* the two swap regions: region -> word index -> word
    pc,           \* "off" (no power), "ready" (initialized), "hang" (Init never returns)
    mSwapIndex,   \* active region
    mSwapUsed,    \* write frontier, in bytes
    ops,          \* operations issued so far
    losses,       \* power losses so far
    last,         \* the operation completed last, with its arguments and result
    hist,         \* the operation cut by the last power loss, with the store before and after it
    appended      \* per key: the values appended since the key was last seen empty, and
                  \* whether the key was written by Set only ("only"), also by Add or
                  \* Delete ("mixed"), or not at all since the last Wipe or Init ("none")

vars == <<flash, pc, mSwapIndex, mSwapUsed, ops, losses, last, hist, appended>>

NoLast == [op |-> "none", key |-> 0, index |-> 0, value |-> <<>>,
           error |-> OT_ERROR_NONE, swapped |-> FALSE, from |-> "none"]
NoHist == [op |-> "none", key |-> 0, index |-> 0, done |-> FALSE, swap |-> FALSE,
           preChains |-> EmptyChains, postChains |-> EmptyChains,
           preTable |-> EmptyTable, postTable |-> EmptyTable]
NoAppended == [k \in Keys |-> [on |-> FALSE, vals |-> <<>>, sets |-> "none"]]

Init ==
    /\ flash = [r \in 0 .. 1 |-> ErasedRegion]
    /\ pc = "off"
    /\ mSwapIndex = 0
    /\ mSwapUsed = 0
    /\ ops = 0
    /\ losses = 0
    /\ last = NoLast
    /\ hist = NoHist
    /\ appended = NoAppended

\* an operation r runs to completion
Complete(r) ==
    /\ flash' = Apply(flash, r.calls)
    /\ mSwapIndex' = r.index
    /\ mSwapUsed' = r.used
    /\ pc' = "ready"
    /\ hist' = NoHist
    /\ losses' = losses

\* power is lost after the first n flash calls of operation r; h records the
\* store before and after the operation, and the first sl calls of r are
\* those of the Swap it runs
PowerLoss(r, n, h, sl) ==
    /\ flash' = Images(flash, r.calls)[n + 1]
    /\ mSwapIndex' = 0
    /\ mSwapUsed' = 0
    /\ pc' = "off"
    /\ ops' = ops + 1
    /\ losses' = losses + 1
    /\ last' = NoLast
    /\ appended' = NoAppended
    /\ hist' = [h EXCEPT !.done = (n = Len(r.calls)), !.swap = (1 <= n /\ n <= sl)]

\* the number of flash calls that the Swap inside the Add r has issued
SwapCalls(r) ==
    IF ~r.swapped THEN 0
    ELSE IF r.error = OT_ERROR_NONE THEN Len(r.calls) - 2
    ELSE Len(r.calls)

\* the store after operation r has run to completion
After(r) == [flash |-> Apply(flash, r.calls), index |-> r.index, used |-> r.used]

Ready == pc = "ready" /\ ops < MaxOps
CanLose == losses < MaxLoss

\* Init(): at power-on, or called again on a running store
InitOp ==
    /\ pc = "off" \/ Ready
    /\ LET r == FlashInit(flash)
       IN  /\ flash' = Apply(flash, r.calls)
           /\ mSwapIndex' = r.index
           /\ mSwapUsed' = r.used
           /\ pc' = IF r.hang THEN "hang" ELSE "ready"
           /\ last' = [NoLast EXCEPT !.op = "Init", !.from = hist.op,
                                     !.swapped = (Len(r.calls) > 2)]
    /\ ops' = IF pc = "off" THEN ops ELSE ops + 1
    /\ hist' = NoHist
    /\ appended' = IF pc = "off" THEN appended
                    ELSE [k \in Keys |-> [NoAppended[k] EXCEPT !.sets = appended[k].sets]]
    /\ losses' = losses

InitCrash ==
    /\ pc = "off"
    /\ ops < MaxOps
    /\ CanLose
    /\ LET r == FlashInit(flash)
           sel == InitSelect(flash)
           h == IF sel.wipe THEN [NoHist EXCEPT !.op = "Init"]
                ELSE [NoHist EXCEPT !.op = "Init", !.swap = TRUE,
                         !.preChains = Chains(flash, sel.index, sel.used)]
       IN  \E n \in 1 .. Len(r.calls) :
              /\ flash' = Images(flash, r.calls)[n + 1]
              /\ ops' = ops + 1
              /\ losses' = losses + 1
              /\ hist' = h
    /\ UNCHANGED <<pc, mSwapIndex, mSwapUsed, last, appended>>

\* history is kept for the operations of Spec only
Rec(track, l) == IF track THEN l ELSE NoLast
App(track, a) == IF track THEN a ELSE NoAppended

GetStep(track) ==
    /\ Ready
    /\ \E k \in Keys, i \in Indexes :
          last' = Rec(track, [NoLast EXCEPT !.op = "Get", !.key = k, !.index = i,
                                 !.error = Get(flash, mSwapIndex, mSwapUsed, k, i).error])
    /\ hist' = NoHist
    /\ ops' = ops + 1
    /\ UNCHANGED <<flash, pc, mSwapIndex, mSwapUsed, losses, appended>>

SetStep(track) ==
    /\ Ready
    /\ \E k \in Keys, v \in Values : \E pad \in Pads(v) :
          LET r == Set(flash, mSwapIndex, mSwapUsed, k, v, pad)
          IN  /\ Len(v) <= kMaxDataSize
              /\ Complete(r)
              /\ last' = Rec(track, [NoLast EXCEPT !.op = "Set", !.key = k, !.value = v,
                                        !.error = r.error, !.swapped = r.swapped])
              /\ appended' = App(track, [appended EXCEPT ![k] =
                    [on |-> FALSE, vals |-> <<>>,
                     sets |-> IF r.error # OT_ERROR_NONE THEN appended[k].sets
                              ELSE IF appended[k].sets = "mixed" THEN "mixed"
                              ELSE "only"]])
    /\ ops' = ops + 1

SetCrash ==
    /\ Ready
    /\ CanLose
    /\ LET pre == Chains(flash, mSwapIndex, mSwapUsed)
       IN  \E k \in Keys, v \in Values : \E pad \in Pads(v) :
              LET r == Set(flash, mSwapIndex, mSwapUsed, k, v, pad)
                  post == After(r)
                  h == [NoHist EXCEPT !.op = "Set", !.key = k, !.preChains = pre,
                           !.postChains = Chains(post.flash, post.index, post.used)]
              IN  /\ Len(v) <= kMaxDataSize
                  /\ \E n \in 0 .. Len(r.calls) : PowerLoss(r, n, h, SwapCalls(r))

AddStep(track) ==
    /\ Ready
    /\ \E k \in Keys, v \in Values : \E pad \in Pads(v) :
          LET r == AddAppend(flash, mSwapIndex, mSwapUsed, k, v, pad)
              empty == Get(flash, mSwapIndex, mSwapUsed, k, 0).error = OT_ERROR_NOT_FOUND
          IN  /\ Len(v) <= kMaxDataSize
              /\ Complete(r)
              /\ last' = Rec(track, [NoLast EXCEPT !.op = "Add", !.key = k, !.value = v,
                                        !.error = r.error, !.swapped = r.swapped])
              /\ appended' = App(track,
                    IF r.error # OT_ERROR_NONE THEN appended
                    ELSE IF empty
                    THEN [appended EXCEPT ![k] = [on |-> TRUE, vals |-> <<v>>, sets |-> "mixed"]]
                    ELSE IF appended[k].on
                    THEN [appended EXCEPT ![k].vals = Append(@, v), ![k].sets = "mixed"]
                    ELSE [appended EXCEPT ![k].sets = "mixed"])
    /\ ops' = ops + 1

AddCrash ==
    /\ Ready
    /\ CanLose
    /\ LET pre == Chains(flash, mSwapIndex, mSwapUsed)
       IN  \E k \in Keys, v \in Values : \E pad \in Pads(v) :
              LET r == AddAppend(flash, mSwapIndex, mSwapUsed, k, v, pad)
                  post == After(r)
                  h == [NoHist EXCEPT !.op = "Add", !.key = k, !.preChains = pre,
                           !.postChains = Chains(post.flash, post.index, post.used)]
              IN  /\ Len(v) <= kMaxDataSize
                  /\ \E n \in 0 .. Len(r.calls) : PowerLoss(r, n, h, SwapCalls(r))

DeleteIndexes == -1 .. 2

DeleteStep(track) ==
    /\ Ready
    /\ \E k \in Keys, i \in DeleteIndexes :
          LET r == Delete(flash, mSwapIndex, mSwapUsed, k, i)
          IN  /\ Complete(r)
              /\ last' = Rec(track, [NoLast EXCEPT !.op = "Delete", !.key = k, !.index = i,
                                        !.error = r.error])
              /\ appended' = App(track, [appended EXCEPT ![k] =
                    [on |-> FALSE, vals |-> <<>>,
                     sets |-> IF r.error = OT_ERROR_NONE THEN "mixed" ELSE appended[k].sets]])
    /\ ops' = ops + 1

DeleteCrash ==
    /\ Ready
    /\ CanLose
    /\ LET pre == GetTable(flash, mSwapIndex, mSwapUsed)
       IN  \E k \in Keys, i \in DeleteIndexes :
              LET r == Delete(flash, mSwapIndex, mSwapUsed, k, i)
                  post == After(r)
                  h == [NoHist EXCEPT !.op = "Delete", !.key = k, !.index = i, !.preTable = pre,
                           !.postTable = GetTable(post.flash, post.index, post.used)]
              IN  \E n \in 0 .. Len(r.calls) : PowerLoss(r, n, h, 0)

WipeStep(track) ==
    /\ Ready
    /\ Complete(Wipe)
    /\ last' = Rec(track, [NoLast EXCEPT !.op = "Wipe"])
    /\ appended' = NoAppended
    /\ ops' = ops + 1

WipeCrash ==
    /\ Ready
    /\ CanLose
    /\ LET h == [NoHist EXCEPT !.op = "Wipe",
                    !.preTable = GetTable(flash, mSwapIndex, mSwapUsed),
                    !.postTable = EmptyTable]
       IN  \E n \in 0 .. Len(Wipe.calls) : PowerLoss(Wipe, n, h, 0)

GetOp == GetStep(TRUE)
SetOp == SetStep(TRUE)
AddOp == AddStep(TRUE)
DeleteOp == DeleteStep(TRUE)
WipeOp == WipeStep(TRUE)

GetOpPL == GetStep(FALSE)
SetOpPL == SetStep(FALSE)
AddOpPL == AddStep(FALSE)
DeleteOpPL == DeleteStep(FALSE)
WipeOpPL == WipeStep(FALSE)

\* the store's operations, each run to completion
Next ==
    \/ InitOp
    \/ GetOp
    \/ SetOp
    \/ AddOp
    \/ DeleteOp
    \/ WipeOp

Spec == Init /\ [][Next]_vars

\* the same operations, any of which a power loss may cut short
NextPL ==
    \/ InitOp
    \/ InitCrash
    \/ GetOpPL
    \/ SetOpPL
    \/ SetCrash
    \/ AddOpPL
    \/ AddCrash
    \/ DeleteOpPL
    \/ DeleteCrash
    \/ WipeOpPL
    \/ WipeCrash

SpecPL == Init /\ [][NextPL]_vars

\* ------------------------------------------------ the chain of one key
\* Set, Add and Delete on one key, where a power loss may cut a Delete(K, 0)
\* short
ChainKey == 1
ChainIndexes == {0, 1}
ChainReady == pc = "ready" /\ ops < MaxChainOps

ChainRun(r) ==
    /\ ChainReady
    /\ Complete(r)
    /\ last' = NoLast
    /\ appended' = NoAppended
    /\ ops' = ops + 1

SetChain ==
    \E v \in Values : \E pad \in Pads(v) :
       ChainRun(Set(flash, mSwapIndex, mSwapUsed, ChainKey, v, pad))

AddChain ==
    \E v \in Values : \E pad \in Pads(v) :
       ChainRun(AddAppend(flash, mSwapIndex, mSwapUsed, ChainKey, v, pad))

DeleteChain ==
    \E i \in ChainIndexes :
       ChainRun(Delete(flash, mSwapIndex, mSwapUsed, ChainKey, i))

DeleteHeadCrash ==
    /\ ChainReady
    /\ CanLose
    /\ LET r == Delete(flash, mSwapIndex, mSwapUsed, ChainKey, 0)
           post == After(r)
           h == [NoHist EXCEPT !.op = "Delete", !.key = ChainKey, !.index = 0,
                    !.preTable = GetTable(flash, mSwapIndex, mSwapUsed),
                    !.postTable = GetTable(post.flash, post.index, post.used)]
       IN  \E n \in 0 .. Len(r.calls) : PowerLoss(r, n, h, 0)

NextChain ==
    \/ InitOp
    \/ SetChain
    \/ AddChain
    \/ DeleteChain
    \/ DeleteHeadCrash

SpecChain == Init /\ [][NextChain]_vars

\* Init on flash that holds arbitrary prior contents: the first ArbPrefix
\* words of region 0 are any of ArbWords, the rest of it is erased or zeroed,
\* and region 1 is erased behind any swap header
ArbWords ==
    {Erased, kActive, kInactive, <<0, 0>>,
     <<1, 65532>>,        \* key 1, flags: AddBegin and AddComplete cleared
     <<1, 65534>>,        \* key 1, flags: only AddBegin cleared
     <<0, 65535>>,        \* length 0
     <<64, 65535>>,       \* length 64
     <<65528, 65535>>}    \* length 0xfff8

InitArb ==
    /\ \E p \in [0 .. ArbPrefix - 1 -> ArbWords], t \in {Erased, <<0, 0>>},
          h1 \in {Erased, kActive, kInactive} :
          flash = [r \in 0 .. 1 |-> [w \in 0 .. SwapWords - 1 |->
                     IF r = 0 THEN (IF w < ArbPrefix THEN p[w] ELSE t)
                     ELSE (IF w = 0 THEN h1 ELSE Erased)]]
    /\ pc = "off"
    /\ mSwapIndex = 0
    /\ mSwapUsed = 0
    /\ ops = 0
    /\ losses = 0
    /\ last = NoLast
    /\ hist = NoHist
    /\ appended = NoAppended

NextArb == InitOp

SpecArb == InitArb /\ [][NextArb]_vars

\* ------------------------------------------------------------- properties
Found(v) == [error |-> OT_ERROR_NONE, value |-> v, length |-> Len(v)]
NotFound == [error |-> OT_ERROR_NOT_FOUND, value |-> <<>>, length |-> 0]
GetNow(k, i) == Get(flash, mSwapIndex, mSwapUsed, k, i)

\* C1: round trip - when Set(K,V) returns OK, the Get(K,0) that follows
\* returns Found with exactly the bytes of V and the length |V|
C1_RoundTrip ==
    (last.op = "Set" /\ last.error = OT_ERROR_NONE)
        => GetNow(last.key, 0) = Found(last.value)

\* a Set of the 9-byte value that had to compact the region first
C1_Witness ==
    /\ last.op = "Set"
    /\ last.error = OT_ERROR_NONE
    /\ last.swapped
    /\ Len(last.value) = 9

\* C2: Set replaces the whole chain - after a successful Set(K,V), Get(K,0)
\* returns V and Get(K,i) returns NotFound for every i >= 1
C2_SetReplacesChain ==
    (last.op = "Set" /\ last.error = OT_ERROR_NONE)
        => /\ GetNow(last.key, 0) = Found(last.value)
           /\ \A i \in Indexes \ {0} : GetNow(last.key, i).error = OT_ERROR_NOT_FOUND

\* C3: append ordering - after the successful appends Add(K,V0) .. Add(K,Vn)
\* that follow a state where Get(K,0) is NotFound, Get(K,i) returns Vi for
\* every i in 0..n and NotFound for i > n
C3_AppendOrdering ==
    \A k \in Keys :
        appended[k].on =>
            \A i \in Indexes :
                GetNow(k, i) = IF i < Len(appended[k].vals)
                               THEN Found(appended[k].vals[i + 1])
                               ELSE NotFound

\* the second append of a key found the region full and compacted it
C3_Witness ==
    /\ last.op = "Add"
    /\ last.error = OT_ERROR_NONE
    /\ last.swapped
    /\ appended[last.key].on
    /\ Len(appended[last.key].vals) = 2

\* the frontier is aligned, inside the region, and the space past it is erased
FrontierOK ==
    /\ mSwapUsed % 4 = 0
    /\ SwapHeaderSize <= mSwapUsed
    /\ mSwapUsed <= mSwapSize
    /\ \A w \in 0 .. SwapWords - 1 :
          4 * w >= mSwapUsed => flash[mSwapIndex][w] = Erased

Recovered(opNames) == pc = "off" /\ pc' = "ready" /\ hist.op \in opNames
ChainsNext == Chains(flash', mSwapIndex', mSwapUsed')
TableNow == GetTable(flash, mSwapIndex, mSwapUsed)
TableNext == GetTable(flash', mSwapIndex', mSwapUsed')

\* C4: crash safety of Add/Set - after a power loss inside an Add or Set and
\* the Init that follows, the chain of every key is the one before the call
\* or the one after the completed call, and it is the one before the call
\* when the AddComplete rewrite had not been issued
C4_AddCrashSafe ==
    [][Recovered({"Add", "Set"})
          => /\ ChainsNext \in {hist.preChains, hist.postChains}
             /\ ~hist.done => ChainsNext = hist.preChains]_vars

\* Init has compacted the region after a power loss inside Set
C4_Witness ==
    /\ pc = "ready"
    /\ last.op = "Init"
    /\ last.from = "Set"
    /\ last.swapped

\* C5: crash safety of Delete - after a power loss inside Delete(K,index) and
\* the Init that follows, Get returns for every key and index what it
\* returned before the call or what it returns after the completed call
C5_DeleteCrashSafe ==
    [][Recovered({"Delete"}) => TableNext \in {hist.preTable, hist.postTable}]_vars

\* C6: crash safety of Wipe - after a power loss inside Wipe and the Init that
\* follows, Get returns what it returned before the Wipe or nothing at all
C6_WipeCrashSafe ==
    [][Recovered({"Wipe"}) => TableNext \in {hist.preTable, EmptyTable}]_vars

\* number of values Get reports under key k
RECURSIVE CountFound(_, _)
CountFound(row, i) ==
    IF i \notin DOMAIN row \/ row[i].error # OT_ERROR_NONE THEN 0
    ELSE 1 + CountFound(row, i + 1)

\* C7: delete-one preserves others - when key K has n values, Delete(K,i) with
\* 0 <= i < n returns OK, leaves Get(K,j) unchanged for j < i, moves Get(K,j+1)
\* to Get(K,j) for i <= j < n-1, leaves Get(K,n-1) NotFound, and changes no
\* Get result of another key
C7_DeleteOnePreservesOthers ==
    [][(last'.op = "Delete" /\ ops' = ops + 1 /\ last'.index >= 0)
          => LET k == last'.key
                 i == last'.index
                 pre == TableNow
                 post == TableNext
                 n == CountFound(pre[k], 0)
             IN  ((\A j \in Indexes : (pre[k][j].error = OT_ERROR_NONE) <=> (j < n)) /\ i < n)
                    => /\ last'.error = OT_ERROR_NONE
                       /\ \A j \in Indexes : j < i => post[k][j] = pre[k][j]
                       /\ \A j \in Indexes : (i <= j /\ j < n - 1) => post[k][j] = pre[k][j + 1]
                       /\ post[k][n - 1].error = OT_ERROR_NOT_FOUND
                       /\ \A k2 \in Keys \ {k} : post[k2] = pre[k2]]_vars

\* Delete(K,1) has removed the middle one of three values
C7_Witness ==
    /\ last.op = "Delete"
    /\ last.error = OT_ERROR_NONE
    /\ last.index = 1
    /\ GetNow(last.key, 1).error = OT_ERROR_NONE
    /\ GetNow(last.key, 2).error = OT_ERROR_NOT_FOUND

\* C8: compaction preserves visible values - a Swap triggered by a Set/Add on
\* another key leaves every Get(K,i) as it was: Found with the same bytes, or
\* NotFound
C8_SwapPreservesGet ==
    [][(last'.op \in {"Set", "Add"} /\ last'.swapped /\ ops' = ops + 1)
          => \A k \in Keys \ {last'.key} : TableNext[k] = TableNow[k]]_vars

\* C9: Init from arbitrary flash - Init returns, the selected region reads
\* ACTIVE and the frontier is aligned, inside the region and followed by
\* erased words only
C9_InitConsistent ==
    /\ pc # "hang"
    /\ pc = "ready" => (otPlatFlashRead(flash, mSwapIndex, 0) = kActive /\ FrontierOK)

\* C10: frontier invariant - after every completed operation, also after
\* power losses and the Init that follows, swapUsed is a multiple of 4 in
\* swapHeaderSize..swapSize and the active region is erased from swapUsed on
C10_Frontier == pc = "ready" => FrontierOK

\* Init has compacted the region after a power loss inside Add
C10_Witness ==
    /\ pc = "ready"
    /\ last.op = "Init"
    /\ last.from = "Add"
    /\ last.swapped
    /\ mSwapUsed > SwapHeaderSize

\* C11: Delete return code - Delete(K,i) with i >= 0 returns OK exactly when
\* Get(K,i) returned Found just before the call and NotFound otherwise; when
\* it returns NotFound no flash word and no in-memory field has changed
C11_DeleteReturnCode ==
    [][(last'.op = "Delete" /\ ops' = ops + 1 /\ last'.index >= 0)
          => /\ last'.error \in {OT_ERROR_NONE, OT_ERROR_NOT_FOUND}
             /\ (last'.error = OT_ERROR_NONE)
                   <=> (TableNow[last'.key][last'.index].error = OT_ERROR_NONE)
             /\ (last'.error = OT_ERROR_NOT_FOUND)
                   => /\ flash' = flash
                      /\ mSwapIndex' = mSwapIndex
                      /\ mSwapUsed' = mSwapUsed]_vars

\* Delete(K,1) has returned NotFound on a key that holds exactly one value
C11_Witness ==
    /\ last.op = "Delete"
    /\ last.index = 1
    /\ last.error = OT_ERROR_NOT_FOUND
    /\ GetNow(last.key, 0).error = OT_ERROR_NONE

\* the size in flash of a record that holds value v
RecordSize(v) == GetSize([RecordHeaderInit(0, FALSE) EXCEPT !.mLength = Len(v)])

ChainsNow == Chains(flash, mSwapIndex, mSwapUsed)

\* C12: NoSpace handling - when Add/Set returns NoSpace a compaction has run
\* and swapUsed + RecordSize still exceeds swapSize; the store is left exactly
\* as the compaction alone leaves it (no record of the call is written) and
\* the chain of every key is the one before the call
C12_NoSpace ==
    [][(last'.op \in {"Set", "Add"} /\ ops' = ops + 1 /\ last'.error = OT_ERROR_NO_BUFS)
          => LET sw == Swap(flash, mSwapIndex, mSwapUsed)
             IN  /\ last'.swapped
                 /\ mSwapUsed' + RecordSize(last'.value) > mSwapSize
                 /\ flash' = Apply(flash, sw.calls)
                 /\ mSwapIndex' = sw.index
                 /\ mSwapUsed' = sw.used
                 /\ ChainsNext = ChainsNow]_vars

\* a Set was refused while both keys hold a value
C12_Witness ==
    /\ last.op = "Set"
    /\ last.error = OT_ERROR_NO_BUFS
    /\ \A k \in Keys : GetNow(k, 0).error = OT_ERROR_NONE

\* the offsets of the records of key aKey in [offset, used) that satisfy
\* IsValid, in the order of the region
RECURSIVE ValidRecords(_, _, _, _, _)
ValidRecords(f, idx, used, aKey, offset) ==
    IF offset >= used THEN <<>>
    ELSE LET record == ReadHeader(f, idx, offset)
             rest == ValidRecords(f, idx, used, aKey, offset + GetSize(record))
         IN  IF record.mKey = aKey /\ IsValid(record) THEN <<offset>> \o rest ELSE rest

\* the offsets of the tombstoned records of key aKey in [offset, used)
RECURSIVE DeletedRecords(_, _, _, _, _)
DeletedRecords(f, idx, used, aKey, offset) ==
    IF offset >= used THEN <<>>
    ELSE LET record == ReadHeader(f, idx, offset)
             rest == DeletedRecords(f, idx, used, aKey, offset + GetSize(record))
         IN  IF record.mKey = aKey /\ IsDeleted(record) THEN <<offset>> \o rest ELSE rest

ValidNow(k) == ValidRecords(flash, mSwapIndex, mSwapUsed, k, SwapHeaderSize)
ValidNext(k) == ValidRecords(flash', mSwapIndex', mSwapUsed', k, SwapHeaderSize)

\* C13: delete-all - Delete(K,-1) returns OK exactly when a valid record of K
\* existed, and after it Get(K,i) is NotFound for every i; an append Add(K,V)
\* that follows it and returns OK writes a valid record marked First, and
\* Get(K,0) returns V
C13_DeleteAll ==
    [][/\ (last'.op = "Delete" /\ ops' = ops + 1 /\ last'.index = -1)
             => /\ (last'.error = OT_ERROR_NONE) <=> (ValidNow(last'.key) # <<>>)
                /\ last'.error \in {OT_ERROR_NONE, OT_ERROR_NOT_FOUND}
                /\ \A i \in Indexes : TableNext[last'.key][i] = NotFound
       /\ (/\ last.op = "Delete" /\ last.index = -1
           /\ last'.op = "Add" /\ ops' = ops + 1
           /\ last'.key = last.key /\ last'.error = OT_ERROR_NONE)
             => LET record == ReadHeader(flash', mSwapIndex',
                                         mSwapUsed' - RecordSize(last'.value))
                IN  /\ record.mKey = last'.key
                    /\ IsValid(record)
                    /\ IsFirst(record)
                    /\ TableNext[last'.key][0] = Found(last'.value)
                    /\ TableNext[last'.key][1] = NotFound]_vars

\* Delete(K,-1) has tombstoned two or more records of K
C13_Witness ==
    /\ last.op = "Delete"
    /\ last.index = -1
    /\ last.error = OT_ERROR_NONE
    /\ Len(DeletedRecords(flash, mSwapIndex, mSwapUsed, last.key, SwapHeaderSize)) >= 2
    /\ ValidNow(last.key) = <<>>

\* what Get returns for every key and index once Init has run on image f
TableAfterInit(f) ==
    LET r == FlashInit(f)
    IN  GetTable(Apply(f, r.calls), r.index, r.used)

\* C14: Wipe idempotence - a Wipe leaves swapIndex = 0, swapUsed =
\* swapHeaderSize and every Get NotFound, also once Init has run again; a
\* second Wipe right after it changes no flash word and no in-memory field
C14_WipeIdempotent ==
    [][/\ (last'.op = "Wipe" /\ ops' = ops + 1)
             => /\ mSwapIndex' = 0
                /\ mSwapUsed' = SwapHeaderSize
                /\ TableNext = EmptyTable
                /\ TableAfterInit(flash') = EmptyTable
                /\ last.op = "Wipe"
                      => /\ flash' = flash
                         /\ mSwapIndex' = mSwapIndex
                         /\ mSwapUsed' = mSwapUsed
       /\ (last.op = "Wipe" /\ last'.op = "Init" /\ ops' = ops + 1)
             => TableNext = EmptyTable]_vars

\* Wipe has run while region 1 was the active region and held a record
C14_Witness ==
    /\ last.op = "Wipe"
    /\ otPlatFlashRead(flash, 1, 0) = kActive
    /\ otPlatFlashRead(flash, 1, SwapHeaderSize) # Erased

\* C15: single active region - in every state left by completed operations,
\* the header of the region named by swapIndex reads ACTIVE and the header of
\* the other region does not
C15_SingleActive ==
    pc = "ready"
        => /\ otPlatFlashRead(flash, mSwapIndex, 0) = kActive
           /\ otPlatFlashRead(flash, 1 - mSwapIndex, 0) # kActive

\* C16: swap commit ordering - at every boundary between the flash calls of a
\* Swap one of the two headers reads ACTIVE; after a power loss at such a
\* boundary Init does not fall through to Wipe, selects region 0 when both
\* headers read ACTIVE, and leaves every key the chain it had before the Swap
C16_SwapCommitOrder ==
    [][(pc = "off" /\ hist.swap /\ pc' = "ready")
          => LET sel == InitSelect(flash)
             IN  /\ otPlatFlashRead(flash, 0, 0) = kActive
                       \/ otPlatFlashRead(flash, 1, 0) = kActive
                 /\ ~sel.wipe
                 /\ otPlatFlashRead(flash, 0, 0) = kActive => sel.index = 0
                 /\ otPlatFlashRead(flash, sel.index, 0) = kActive
                 /\ ChainsNext = hist.preChains]_vars

\* power was lost between the two header writes of a Swap: both headers read
\* ACTIVE and the regions hold records
C16_Witness ==
    /\ pc = "off"
    /\ hist.swap
    /\ otPlatFlashRead(flash, 0, 0) = kActive
    /\ otPlatFlashRead(flash, 1, 0) = kActive
    /\ hist.preChains # EmptyChains

\* a write of data at byte offset off of region r sets no bit that is 0 in f
WriteClearsOnly(f, r, off, data) ==
    \A j \in 1 .. Len(data) :
        LET old == otPlatFlashRead(f, r, off + 4 * (j - 1))
        IN  AndWord(old, data[j]) = data[j]

\* every write of a call sequence, issued in order on image f, only clears bits
RECURSIVE CallsClearOnly(_, _)
CallsClearOnly(f, calls) ==
    IF calls = <<>> THEN TRUE
    ELSE LET c == Head(calls)
         IN  /\ c.type = "write" => WriteClearsOnly(f, c.region, c.offset, c.data)
             /\ CallsClearOnly(ApplyCall(f, c), Tail(calls))

\* C17: bit-clear monotonicity - in every state, also one recovered after a
\* power loss, every FlashWrite that Init, Set, Add, Delete or Wipe (and the
\* Swap inside them) issues next stores no 1 over a 0 of the flash word
C17_BitClear ==
    /\ pc = "off" => CallsClearOnly(flash, FlashInit(flash).calls)
    /\ pc = "ready" =>
          /\ CallsClearOnly(flash, FlashInit(flash).calls)
          /\ CallsClearOnly(flash, Wipe.calls)
          /\ \A k \in Keys, v \in Values : \A pad \in Pads(v) :
                /\ CallsClearOnly(flash, Set(flash, mSwapIndex, mSwapUsed, k, v, pad).calls)
                /\ CallsClearOnly(flash, AddAppend(flash, mSwapIndex, mSwapUsed, k, v, pad).calls)
          /\ \A k \in Keys, i \in DeleteIndexes :
                CallsClearOnly(flash, Delete(flash, mSwapIndex, mSwapUsed, k, i).calls)

\* a store recovered after a power loss in which Delete(K,0) rewrites two
\* headers and a Set has to compact
C17_Witness ==
    /\ pc = "ready"
    /\ losses > 0
    /\ \E k \in Keys :
          /\ Len(Delete(flash, mSwapIndex, mSwapUsed, k, 0).calls) = 2
          /\ Set(flash, mSwapIndex, mSwapUsed, k, <<>>, 0).swapped

\* the offsets among offs whose record is marked First
RECURSIVE FirstAmong(_, _, _)
FirstAmong(f, idx, offs) ==
    IF offs = <<>> THEN <<>>
    ELSE LET rest == FirstAmong(f, idx, Tail(offs))
         IN  IF IsFirst(ReadHeader(f, idx, Head(offs))) THEN <<Head(offs)>> \o rest ELSE rest

\* C18: First-flag uniqueness - in every state left by completed operations,
\* at most one of the valid records of a key in the active region is marked
\* First, and that one is the valid record of the key at the lowest offset
C18_FirstUnique ==
    pc = "ready" =>
        \A k \in Keys :
            LET valid == ValidNow(k)
                first == FirstAmong(flash, mSwapIndex, valid)
            IN  /\ Len(first) <= 1
                /\ Len(first) = 1 => first[1] = valid[1]

\* the offsets of all records in [offset, used), in the order of the region
RECURSIVE RecordOffsets(_, _, _, _)
RecordOffsets(f, idx, used, offset) ==
    IF offset >= used THEN <<>>
    ELSE <<offset>> \o
         RecordOffsets(f, idx, used, offset + GetSize(ReadHeader(f, idx, offset)))

\* the records a compaction has to keep: the valid ones with no later valid
\* First-marked record of the same key
Survivors(f, idx, used) ==
    LET offs == RecordOffsets(f, idx, used, SwapHeaderSize)
        later(o) == {p \in {offs[j] : j \in 1 .. Len(offs)} : p > o}
        keep(o) == LET record == ReadHeader(f, idx, o)
                   IN  /\ IsValid(record)
                       /\ \A p \in later(o) :
                             LET other == ReadHeader(f, idx, p)
                             IN  ~(IsValid(other) /\ IsFirst(other) /\ other.mKey = record.mKey)
    IN  SelectSeq(offs, keep)

\* the words of the records at offsets offs, one record after the other
RECURSIVE RecordImages(_, _, _)
RecordImages(f, idx, offs) ==
    IF offs = <<>> THEN <<>>
    ELSE ReadWords(f, idx, Head(offs), GetSize(ReadHeader(f, idx, Head(offs))))
         \o RecordImages(f, idx, Tail(offs))

\* the store as Swap leaves it, started on image f with region idx active
\* and the frontier at used
AfterSwap(f, idx, used) ==
    LET sw == Swap(f, idx, used)
    IN  [flash |-> Apply(f, sw.calls), index |-> sw.index, used |-> sw.used]

CompactionExact(f, idx, used, written) ==
    LET new == AfterSwap(f, idx, used)
        kept == Survivors(f, idx, used)
        image == RecordImages(f, idx, kept)
        copied == RecordOffsets(new.flash, new.index, new.used, SwapHeaderSize)
    IN  /\ new.index = 1 - idx
        /\ new.used = SwapHeaderSize + 4 * Len(image)
        /\ ReadWords(new.flash, new.index, SwapHeaderSize, new.used - SwapHeaderSize) = image
        /\ Len(copied) = Len(kept)
        /\ \A j \in 1 .. Len(copied) : IsValid(ReadHeader(new.flash, new.index, copied[j]))
        /\ \A k \in Keys :
              written[k].sets = "only"
                 => Len(ValidRecords(new.flash, new.index, new.used, k, SwapHeaderSize)) = 1

\* C19: compaction result - when a Swap runs (inside Set/Add on a full
\* region, or inside Init), the new active region holds from swapHeaderSize
\* to swapUsed exactly the source's valid records that no later valid First
\* record of their key follows, word for word and in the same order, all of
\* them valid; a key written by Set only is left exactly one valid record
C19_CompactionResult ==
    [][/\ (last'.op \in {"Set", "Add"} /\ ops' = ops + 1 /\ last'.swapped)
             => CompactionExact(flash, mSwapIndex, mSwapUsed, appended)
       /\ (last'.op = "Init" /\ last'.swapped)
             => LET sel == InitSelect(flash)
                IN  CompactionExact(flash, sel.index, sel.used, appended)]_vars

\* a Set on a key written by Set only has compacted a region that held three
\* records
C19_Witness ==
    /\ last.op = "Set"
    /\ last.swapped
    /\ last.error = OT_ERROR_NONE
    /\ appended[last.key].sets = "only"
    /\ Len(RecordOffsets(flash, 1 - mSwapIndex, mSwapSize, SwapHeaderSize)) = 3
    /\ Len(ValidNow(last.key)) = 2

\* a store: the flash and the in-memory fields of Flash
Store(f, idx, used) == [flash |-> f, index |-> idx, used |-> used]

\* the store left by operation r run on store st
Run(st, r) == Store(Apply(st.flash, r.calls), r.index, r.used)

\* the store that Init leaves on flash f
Booted(f) ==
    LET r == FlashInit(f)
    IN  Store(Apply(f, r.calls), r.index, r.used)

\* what Get returns on store st for every index of key k
KeyTable(st, k) == GetTable(st.flash, st.index, st.used)[k]

\* the operations that may follow on key k: Add, Set, Delete and compaction
LaterOps ==
    [op : {"Set", "Add"}, value : Values, index : {0}]
       \cup [op : {"Delete"}, value : {<<>>}, index : DeleteIndexes]
       \cup [op : {"Swap"}, value : {<<>>}, index : {0}]

Later(st, k, o) ==
    CASE o.op = "Set" -> Run(st, Set(st.flash, st.index, st.used, k, o.value, 0))
      [] o.op = "Add" -> Run(st, AddAppend(st.flash, st.index, st.used, k, o.value, 0))
      [] o.op = "Delete" -> Run(st, Delete(st.flash, st.index, st.used, k, o.index))
      [] o.op = "Swap" -> Run(st, Swap(st.flash, st.index, st.used))

\* a flash call that tombstones a record: its header is written with the
\* Delete bit cleared
IsTombstone(call) == call.type = "write" /\ ~HasBit(call.data[1][2], kFlagDelete)

\* n calls of a Delete(K, 0) tombstone the head and stop before the write
\* that marks the next record First
HeadCut(calls, n) ==
    /\ 1 <= n
    /\ n < Len(calls)
    /\ IsTombstone(calls[n])
    /\ \A j \in (n + 1) .. Len(calls) : ~IsTombstone(calls[j])

\* the step in which power is lost inside Delete(K, 0) at that point, on a
\* key that holds two or more values
HeadCutStep ==
    /\ pc = "ready"
    /\ pc' = "off"
    /\ hist'.op = "Delete"
    /\ hist'.index = 0
    /\ Get(flash, mSwapIndex, mSwapUsed, hist'.key, 1).error = OT_ERROR_NONE
    /\ LET d == Delete(flash, mSwapIndex, mSwapUsed, hist'.key, 0)
       IN  \E n \in 1 .. Len(d.calls) :
              HeadCut(d.calls, n) /\ flash' = Images(flash, d.calls)[n + 1]

\* C20: interrupted Delete(K, 0) - when power is lost after Delete(K, 0) has
\* tombstoned the head of a key with two or more values and before it has
\* marked the next record First, then after Init every Get(K, j) returns what
\* it returns after the uninterrupted Delete(K, 0), and so it does after one
\* and after two later Add, Set, Delete or compaction steps on that key
C20_InterruptedDeleteHead ==
    [][HeadCutStep =>
          LET k == hist'.key
              cut == Booted(flash')
              whole == Run(Store(flash, mSwapIndex, mSwapUsed),
                           Delete(flash, mSwapIndex, mSwapUsed, k, 0))
          IN  /\ KeyTable(cut, k) = KeyTable(whole, k)
              /\ \A o \in LaterOps :
                    LET cut1 == Later(cut, k, o)
                        whole1 == Later(whole, k, o)
                    IN  /\ KeyTable(cut1, k) = KeyTable(whole1, k)
                        /\ \A p \in LaterOps :
                              KeyTable(Later(cut1, k, p), k)
                                 = KeyTable(Later(whole1, k, p), k)]_vars

====
